---- MODULE Spec2Model ----
(***************************************************************************)
(* NDL-OCR Lite on Lambda: the OCR orchestration of lambda/handler.py,     *)
(* the input normalizer of lambda/input_parser.py and lambda/pdf_utils.py. *)
(*                                                                         *)
(* Python strings that the code parses (the page-selection expression,     *)
(* the image argument) are sequences of one-character strings; byte        *)
(* strings are sequences of integers 0..255; a path is the sequence of its *)
(* components.  An optional value (a missing key, None) is a record        *)
(* [has, val].                                                             *)
(***************************************************************************)
EXTENDS Integers, Sequences, FiniteSets, TLC

\* ------------------------------------------------------------------ bounds

\* Longest page-selection expression drawn for parse_pages.
MaxExprLen == 4
\* Largest total_pages drawn for parse_pages.
MaxTotalPages == 3

\* ------------------------------------------------------- Python primitives

None == [has |-> FALSE, val |-> <<>>]
Some(v) == [has |-> TRUE, val |-> v]

\* No exception in flight.
NoExc == [cls |-> "", msg |-> ""]
Raise(cls, msg) == [cls |-> cls, msg |-> msg]

\* str(chars): the text of a character sequence.
RECURSIVE Str(_)
Str(s) == IF s = <<>> THEN "" ELSE Head(s) \o Str(Tail(s))

DigitVal ==
  ("0" :> 0) @@ ("1" :> 1) @@ ("2" :> 2) @@ ("3" :> 3) @@ ("4" :> 4) @@
  ("5" :> 5) @@ ("6" :> 6) @@ ("7" :> 7) @@ ("8" :> 8) @@ ("9" :> 9)

IsDigit(c) == c \in DOMAIN DigitVal
IsSpace(c) == c = " "

\* str.strip()
RECURSIVE LStrip(_)
LStrip(s) == IF s # <<>> /\ IsSpace(Head(s)) THEN LStrip(Tail(s)) ELSE s

RECURSIVE RStrip(_)
RStrip(s) ==
  IF s # <<>> /\ IsSpace(s[Len(s)]) THEN RStrip(SubSeq(s, 1, Len(s) - 1)) ELSE s

Strip(s) == RStrip(LStrip(s))

\* c in s
Contains(s, c) == \E i \in 1..Len(s) : s[i] = c

\* Index of the first occurrence of c in s (c occurs in s).
FirstIndex(s, c) ==
  CHOOSE i \in 1..Len(s) : s[i] = c /\ \A j \in 1..(i - 1) : s[j] # c

\* s.split(sep): never empty, "".split(",") is [""].
RECURSIVE Split(_, _)
Split(s, sep) ==
  IF Contains(s, sep)
  THEN LET i == FirstIndex(s, sep)
       IN <<SubSeq(s, 1, i - 1)>> \o Split(SubSeq(s, i + 1, Len(s)), sep)
  ELSE <<s>>

\* s.split(sep, 1) for an s that contains sep: the text before and after the
\* first sep.
SplitOnce(s, sep) ==
  LET i == FirstIndex(s, sep)
  IN <<SubSeq(s, 1, i - 1), SubSeq(s, i + 1, Len(s))>>

IsDigits(s) == Len(s) > 0 /\ \A i \in 1..Len(s) : IsDigit(s[i])

RECURSIVE DigitsVal(_)
DigitsVal(s) ==
  IF s = <<>> THEN 0
  ELSE 10 * DigitsVal(SubSeq(s, 1, Len(s) - 1)) + DigitVal[s[Len(s)]]

\* int(s): surrounding whitespace is ignored, one sign is allowed, then at
\* least one digit; anything else raises ValueError.
PyIntMutEmptyIsZero(s) ==
  LET t == Strip(s)
      signed == t # <<>> /\ Head(t) \in {"-", "+"}
      body == IF signed THEN Tail(t) ELSE t
  IN IF IsDigits(body) \/ body = <<>>
     THEN [exc |-> NoExc,
           val |-> IF signed /\ Head(t) = "-" THEN 0 - DigitsVal(body)
                   ELSE DigitsVal(body)]
     ELSE [exc |-> Raise("ValueError",
                         "invalid literal for int() with base 10: '"
                           \o Str(s) \o "'"),
           val |-> 0]
PyInt(s) ==
  LET t == Strip(s)
      signed == t # <<>> /\ Head(t) \in {"-", "+"}
      body == IF signed THEN Tail(t) ELSE t
  IN IF IsDigits(body)
     THEN [exc |-> NoExc,
           val |-> IF signed /\ Head(t) = "-" THEN 0 - DigitsVal(body)
                   ELSE DigitsVal(body)]
     ELSE [exc |-> Raise("ValueError",
                         "invalid literal for int() with base 10: '"
                           \o Str(s) \o "'"),
           val |-> 0]

\* list(range(n))
RangeMutStartsAtOne(n) == [i \in 1..n |-> i]
range(n) == [i \in 1..n |-> i - 1]

\* sorted(set)
RECURSIVE SortedMutDescending(_)
SortedMutDescending(S) ==
  IF S = {} THEN <<>>
  ELSE LET m == CHOOSE x \in S : \A y \in S : y <= x
       IN <<m>> \o SortedMutDescending(S \ {m})

RECURSIVE sorted(_)
sorted(S) ==
  IF S = {} THEN <<>>
  ELSE LET m == CHOOSE x \in S : \A y \in S : x <= y
       IN <<m>> \o sorted(S \ {m})

\* ------------------------------------------------- input_parser.parse_pages

\* The zero-based indices one range token adds (lines 31-33).
RangeIndicesMutExclusiveEnd(start, end, total_pages) ==
  {p - 1 : p \in {q \in start..(end - 1) : 1 <= q /\ q <= total_pages}}
RangeIndices(start, end, total_pages) ==
  {p - 1 : p \in {q \in start..end : 1 <= q /\ q <= total_pages}}

\* The zero-based indices one single-number token adds (lines 36-37).
SingleIndices(p, total_pages) ==
  IF 1 <= p /\ p <= total_pages THEN {p - 1} ELSE {}

\* The loop over pages_str.split(","): the indices collected, or the
\* exception of the first token that int() rejects.
RECURSIVE PartsLoop(_, _, _)
PartsLoop(parts, total_pages, indices) ==
  IF parts = <<>> THEN [exc |-> NoExc, val |-> indices]
  ELSE
    LET part == Strip(Head(parts))
    IN IF Contains(part, "-")
       THEN LET se == SplitOnce(part, "-")
                start == PyInt(Strip(se[1]))
                end == PyInt(Strip(se[2]))
            IN IF start.exc # NoExc THEN [exc |-> start.exc, val |-> {}]
               ELSE IF end.exc # NoExc THEN [exc |-> end.exc, val |-> {}]
               ELSE PartsLoop(Tail(parts), total_pages,
                      indices \cup RangeIndices(start.val, end.val, total_pages))
       ELSE LET p == PyInt(part)
            IN IF p.exc # NoExc THEN [exc |-> p.exc, val |-> {}]
               ELSE PartsLoop(Tail(parts), total_pages,
                      indices \cup SingleIndices(p.val, total_pages))

\* return sorted(indices) (line 39), unless the loop raised.
Collected(r) ==
  IF r.exc # NoExc THEN [exc |-> r.exc, val |-> <<>>]
  ELSE [exc |-> NoExc, val |-> sorted(r.val)]

\* parse_pages(pages_str, total_pages): [exc, val], val the returned list.
parse_pages(pages_str, total_pages) ==
  IF ~pages_str.has \/ pages_str.val = <<>>
  THEN [exc |-> NoExc, val |-> range(total_pages)]
  ELSE Collected(PartsLoop(Split(pages_str.val, ","), total_pages, {}))

\* ------------------------------------------------------------ the host

\* Largest page count of a PDF document drawn as input.
MaxPdfPages == 3

\* Set of the elements of a sequence.
Range(s) == {s[i] : i \in 1..Len(s)}

\* s starts with prefix (str.startswith, bytes slices, path prefixes).
StartsWith(s, prefix) ==
  Len(s) >= Len(prefix) /\ SubSeq(s, 1, Len(prefix)) = prefix

\* os.path.join(dir, name) and os.path.basename(path)
join(dir, name) == Append(dir, name)
basename(path) == path[Len(path)]

\* os.path.exists(path)
exists(fsys, path) == path \in fsys

\* os.makedirs(path, exist_ok=True) under /tmp, which always exists.
makedirs(fsys, path) == fsys \cup {path}

\* Everything below directory d.
Below(fsys, d) == {q \in fsys : q # d /\ StartsWith(q, d)}

\* The filesystems shutil.rmtree(d, ignore_errors=True) can leave: the tree
\* is gone, or (removal failed part of the way, the error swallowed) the
\* directory is still there with any part of its content.
rmtree(fsys, d) ==
  {[fs |-> fsys \ (Below(fsys, d) \cup {d}), failed |-> FALSE]}
    \cup {[fs |-> (fsys \ Below(fsys, d)) \cup kept, failed |-> TRUE] :
            kept \in SUBSET Below(fsys, d)}

\* f"{n:03d}"
RECURSIVE NatStr(_)
NatStr(n) ==
  LET d == CHOOSE c \in DOMAIN DigitVal : DigitVal[c] = n % 10
  IN IF n < 10 THEN d ELSE NatStr(n \div 10) \o d

Fmt03d(n) ==
  IF n < 10 THEN "00" \o NatStr(n)
  ELSE IF n < 100 THEN "0" \o NatStr(n)
  ELSE NatStr(n)

\* ------------------------------------------------- base64.b64decode(str)

B64Alphabet ==
  << "A", "B", "C", "D", "E", "F", "G", "H", "I", "J", "K", "L", "M",
     "N", "O", "P", "Q", "R", "S", "T", "U", "V", "W", "X", "Y", "Z",
     "a", "b", "c", "d", "e", "f", "g", "h", "i", "j", "k", "l", "m",
     "n", "o", "p", "q", "r", "s", "t", "u", "v", "w", "x", "y", "z",
     "0", "1", "2", "3", "4", "5", "6", "7", "8", "9", "+", "/" >>

IsB64(c) == c \in Range(B64Alphabet)
B64Val(c) == (CHOOSE i \in 1..Len(B64Alphabet) : B64Alphabet[i] = c) - 1

\* The decoding loop of binascii.a2b_base64 in its default, non-strict mode:
\* characters outside the alphabet are skipped, a complete pad sequence ends
\* the decoding, and a quad left open at the end is an error.
RECURSIVE B64Loop(_, _, _, _, _)
B64Loop(s, quad_pos, leftchar, pads, out) ==
  IF s = <<>>
  THEN IF quad_pos = 0 THEN [exc |-> NoExc, data |-> out]
       ELSE IF quad_pos = 1
       THEN [exc |-> Raise("binascii.Error",
                           "Invalid base64-encoded string: number of data characters cannot be 1 more than a multiple of 4"),
             data |-> <<>>]
       ELSE [exc |-> Raise("binascii.Error", "Incorrect padding"), data |-> <<>>]
  ELSE
    LET c == Head(s)
        v == B64Val(c)
    IN IF c = "="
       THEN IF quad_pos >= 2 /\ quad_pos + pads + 1 >= 4
            THEN [exc |-> NoExc, data |-> out]
            ELSE B64Loop(Tail(s), quad_pos, leftchar,
                         IF quad_pos >= 2 THEN pads + 1 ELSE pads, out)
       ELSE IF ~IsB64(c) THEN B64Loop(Tail(s), quad_pos, leftchar, pads, out)
       ELSE IF quad_pos = 0 THEN B64Loop(Tail(s), 1, v, 0, out)
       ELSE IF quad_pos = 1
       THEN B64Loop(Tail(s), 2, v % 16, 0,
                    Append(out, (leftchar * 4 + v \div 16) % 256))
       ELSE IF quad_pos = 2
       THEN B64Loop(Tail(s), 3, v % 4, 0,
                    Append(out, (leftchar * 16 + v \div 4) % 256))
       ELSE B64Loop(Tail(s), 0, 0, 0, Append(out, (leftchar * 64 + v) % 256))

b64decode(s) == B64Loop(s, 0, 0, 0, <<>>)

\* --------------------------------------------- the external collaborators

\* "%PDF-"
PdfMagic == <<37, 80, 68, 70, 45>>

\* Files in miniature.  A PDF document of n pages (n one decimal digit) is
\* the magic followed by the digit; a JPEG is anything after FF D8 FF.
PdfBytes(n) == PdfMagic \o <<48 + n>>
JpegBytes == <<255, 216, 255, 224>>

\* pdfium.PdfDocument(data), len(pdf): the page count, or PdfiumError (a
\* RuntimeError) for data the library cannot load.
PdfDocument(data) ==
  IF Len(data) = 6 /\ StartsWith(data, PdfMagic) /\ data[6] \in 48..57
  THEN [exc |-> NoExc, total_pages |-> data[6] - 48]
  ELSE [exc |-> Raise("PdfiumError", "Failed to load document (PDFium: Data format error)."),
        total_pages |-> 0]

\* Image.open(io.BytesIO(data)).convert("RGB"): UnidentifiedImageError (an
\* OSError) for bytes no codec recognises.
ImageOpen(data) ==
  IF StartsWith(data, <<255, 216, 255>>) THEN NoExc
  ELSE Raise("UnidentifiedImageError", "cannot identify image file")

\* The object store behind s3_client: one bucket, objects by key, one key
\* the caller may not read.
S3Bucket == <<"b">>
S3Objects ==
  (<<"p">> :> PdfBytes(2)) @@ (<<"j">> :> JpegBytes)
    @@ (<<"c">> :> PdfMagic \o <<120>>)
S3Forbidden == {<<"d">>}

\* s3_client.download_file(bucket, key, dest_path): botocore's ClientError
\* for a bucket or key that is missing or may not be read.
download_file(bucket, key) ==
  IF bucket # S3Bucket
  THEN [exc |-> Raise("ClientError", "An error occurred (404) when calling the HeadObject operation: Not Found"),
        data |-> <<>>]
  ELSE IF key \in S3Forbidden
  THEN [exc |-> Raise("ClientError", "An error occurred (403) when calling the HeadObject operation: Forbidden"),
        data |-> <<>>]
  ELSE IF key \notin DOMAIN S3Objects
  THEN [exc |-> Raise("ClientError", "An error occurred (404) when calling the HeadObject operation: Not Found"),
        data |-> <<>>]
  ELSE [exc |-> NoExc, data |-> S3Objects[key]]

\* ------------------------------------------------------ input_parser.py

_is_pdf(data) == StartsWith(data, PdfMagic)

S3Scheme == <<"s", "3", ":", "/", "/">>

_is_s3_uri(image_str) == StartsWith(image_str, S3Scheme)

\* re.match(r"s3://([^/]+)/(.+)", uri): a non-empty bucket up to the first
\* slash after the scheme, then a non-empty key.
S3UriMatch(uri) ==
  LET rest == SubSeq(uri, Len(S3Scheme) + 1, Len(uri))
      i == FirstIndex(rest, "/")
  IN IF StartsWith(uri, S3Scheme) /\ Contains(rest, "/") /\ i > 1 /\ Len(rest) > i
     THEN [matched |-> TRUE, bucket |-> SubSeq(rest, 1, i - 1),
           key |-> SubSeq(rest, i + 1, Len(rest))]
     ELSE [matched |-> FALSE, bucket |-> <<>>, key |-> <<>>]

\* _download_s3(uri, dest_path), lines 55-58 once the pattern has matched:
\* [exc, fs, data], data what dest_path holds.
Downloaded(got, dest_path, fsys) ==
  IF got.exc # NoExc THEN [exc |-> got.exc, fs |-> fsys, data |-> <<>>]
  ELSE [exc |-> NoExc, fs |-> fsys \cup {dest_path}, data |-> got.data]

DownloadMatched(m, uri, dest_path, fsys) ==
  IF ~m.matched
  THEN [exc |-> Raise("ValueError", "Invalid S3 URI: " \o Str(uri)),
        fs |-> fsys, data |-> <<>>]
  ELSE Downloaded(download_file(m.bucket, m.key), dest_path, fsys)

\* _download_s3(uri, dest_path): [exc, fs, data]
_download_s3(uri, dest_path, fsys) ==
  DownloadMatched(S3UriMatch(uri), uri, dest_path, fsys)

\* _save_image(data, path), lines 98-102: opened is what Image.open raised.
SaveImageMutNoWrap(opened, path, fsys) ==
  IF opened # NoExc THEN [exc |-> opened, fs |-> fsys]
  ELSE [exc |-> NoExc, fs |-> fsys \cup {path}]
SaveOpened(opened, path, fsys) ==
  IF opened # NoExc
  THEN [exc |-> Raise("ValueError", "Cannot decode image data: " \o opened.msg),
        fs |-> fsys]
  ELSE [exc |-> NoExc, fs |-> fsys \cup {path}]

\* _save_image(data, path): [exc, fs]
_save_image(data, path, fsys) == SaveOpened(ImageOpen(data), path, fsys)

\* f"page_{idx + 1:03d}.jpg"
PageFileNameMutZeroBased(idx) == "page_" \o Fmt03d(idx) \o ".jpg"
PageFileName(idx) == "page_" \o Fmt03d(idx + 1) \o ".jpg"

\* render_pdf_pages, lines 29-39: the pages of page_indices rendered and
\* saved, their paths in the order of page_indices.
PagePaths(page_indices, work_dir) ==
  [i \in 1..Len(page_indices) |-> join(work_dir, PageFileName(page_indices[i]))]

RenderPaths(image_paths, fsys) ==
  [exc |-> NoExc, fs |-> fsys \cup Range(image_paths), image_paths |-> image_paths]

\* render_pdf_pages, line 27 on: selected is what parse_pages gave.
RenderSelectedMutEmptyIsError(selected, work_dir, fsys) ==
  IF selected.exc # NoExc
  THEN [exc |-> selected.exc, fs |-> fsys, image_paths |-> <<>>]
  ELSE IF selected.val = <<>>
  THEN [exc |-> Raise("ValueError", "No pages selected"), fs |-> fsys,
        image_paths |-> <<>>]
  ELSE RenderPaths(PagePaths(selected.val, work_dir), fsys)
RenderSelected(selected, work_dir, fsys) ==
  IF selected.exc # NoExc
  THEN [exc |-> selected.exc, fs |-> fsys, image_paths |-> <<>>]
  ELSE RenderPaths(PagePaths(selected.val, work_dir), fsys)

\* render_pdf_pages, line 26 on: pdf is what pdfium.PdfDocument gave.
RenderOpened(pdf, work_dir, pages_param, fsys) ==
  IF pdf.exc # NoExc THEN [exc |-> pdf.exc, fs |-> fsys, image_paths |-> <<>>]
  ELSE RenderSelected(parse_pages(pages_param, pdf.total_pages), work_dir, fsys)

\* pdf_utils.render_pdf_pages(pdf_data, work_dir, pages_param):
\* [exc, fs, image_paths]
render_pdf_pages(pdf_data, work_dir, pages_param, fsys) ==
  RenderOpened(PdfDocument(pdf_data), work_dir, pages_param, fsys)

_render_pdf(data, work_dir, pages_param, fsys) ==
  render_pdf_pages(data, work_dir, pages_param, fsys)

\* parse_input, lines 84-87: decoded is what base64.b64decode gave.
Decoded(decoded, fsys) ==
  IF decoded.exc # NoExc
  THEN [exc |-> Raise("ValueError",
                      "Failed to decode base64 image data: " \o decoded.exc.msg),
        fs |-> fsys, data |-> <<>>]
  ELSE [exc |-> NoExc, fs |-> fsys, data |-> decoded.data]

\* parse_input, lines 77-87: the bytes of the image argument, fetched or
\* decoded: [exc, fs, data].
Materialize(image_str, work_dir, fsys) ==
  IF _is_s3_uri(image_str)
  THEN _download_s3(image_str, join(work_dir, "input_file"), fsys)
  ELSE Decoded(b64decode(image_str), fsys)

\* parse_input, lines 88-90: the bytes are a PDF.
ParsedPdf(rendered) ==
  [exc |-> rendered.exc, fs |-> rendered.fs,
   image_paths |-> rendered.image_paths, is_pdf |-> TRUE]

\* parse_input, lines 91-93: the bytes are taken for an image.
ParsedImage(saved, img_path) ==
  [exc |-> saved.exc, fs |-> saved.fs,
   image_paths |-> IF saved.exc = NoExc THEN <<img_path>> ELSE <<>>,
   is_pdf |-> FALSE]

\* parse_input, lines 88-93: got is the materialized argument.
SniffedMutParsesPagesFirst(got, work_dir, pages_param) ==
  IF got.exc # NoExc
  THEN [exc |-> got.exc, fs |-> got.fs, image_paths |-> <<>>, is_pdf |-> FALSE]
  ELSE IF parse_pages(pages_param, 1).exc # NoExc
  THEN [exc |-> parse_pages(pages_param, 1).exc, fs |-> got.fs,
        image_paths |-> <<>>, is_pdf |-> FALSE]
  ELSE IF _is_pdf(got.data)
  THEN ParsedPdf(_render_pdf(got.data, work_dir, pages_param, got.fs))
  ELSE ParsedImage(_save_image(got.data, join(work_dir, "page_001.jpg"), got.fs),
                   join(work_dir, "page_001.jpg"))
Sniffed(got, work_dir, pages_param) ==
  IF got.exc # NoExc
  THEN [exc |-> got.exc, fs |-> got.fs, image_paths |-> <<>>, is_pdf |-> FALSE]
  ELSE IF _is_pdf(got.data)
  THEN ParsedPdf(_render_pdf(got.data, work_dir, pages_param, got.fs))
  ELSE ParsedImage(_save_image(got.data, join(work_dir, "page_001.jpg"), got.fs),
                   join(work_dir, "page_001.jpg"))

\* not image_str (line 70)
MissingMutNoneOnly(image_str) == ~image_str.has
Missing(image_str) == ~image_str.has \/ image_str.val = <<>>

\* parse_input(event, work_dir): [exc, fs, image_paths, is_pdf]
parse_inputMutMakedirsFirst(ev, work_dir, fsys) ==
  IF Missing(ev.image)
  THEN [exc |-> Raise("ValueError", "Missing required parameter: image"),
        fs |-> makedirs(fsys, work_dir), image_paths |-> <<>>, is_pdf |-> FALSE]
  ELSE Sniffed(Materialize(ev.image.val, work_dir, makedirs(fsys, work_dir)),
               work_dir, ev.pages)
parse_input(ev, work_dir, fsys) ==
  IF Missing(ev.image)
  THEN [exc |-> Raise("ValueError", "Missing required parameter: image"),
        fs |-> fsys, image_paths |-> <<>>, is_pdf |-> FALSE]
  ELSE Sniffed(Materialize(ev.image.val, work_dir, makedirs(fsys, work_dir)),
               work_dir, ev.pages)

\* ------------------------------------------------------------ handler.py

\* isinstance(e, base) for the exception classes that occur.
Bases ==
  ("ValueError" :> {"ValueError", "Exception", "BaseException"})
    @@ ("RuntimeError" :> {"RuntimeError", "Exception", "BaseException"})
    @@ ("PdfiumError" :> {"PdfiumError", "RuntimeError", "Exception", "BaseException"})
    @@ ("ClientError" :> {"ClientError", "Exception", "BaseException"})
    @@ ("UnidentifiedImageError" :>
          {"UnidentifiedImageError", "OSError", "Exception", "BaseException"})
    @@ ("binascii.Error" :>
          {"binascii.Error", "ValueError", "Exception", "BaseException"})

IsInstance(e, base) == base \in Bases[e.cls]

NoResponse == [statusCode |-> 0, body |-> <<>>]

\* The except clauses of _handle_ocr (lines 136-146): the response for
\* exception e, or NoResponse for an exception neither clause catches.
ExceptMutOnlyValueError(e) ==
  IF IsInstance(e, "ValueError")
  THEN [statusCode |-> 400, body |-> [error |-> e.msg]]
  ELSE NoResponse
Except(e) ==
  IF IsInstance(e, "ValueError")
  THEN [statusCode |-> 400, body |-> [error |-> e.msg]]
  ELSE IF IsInstance(e, "Exception")
  THEN [statusCode |-> 500,
        body |-> [error |-> "Internal error: " \o e.cls \o ": " \o e.msg]]
  ELSE NoResponse

\* getattr(context, "aws_request_id", None) or "local"; a context without
\* the attribute is the empty string here.
request_id(context) == IF context = "" THEN "local" ELSE context

\* os.path.join("/tmp", request_id)
WorkDirOf(context) == join(<<"tmp">>, request_id(context))

\* The faults process_single_image can raise on a page image: the image
\* library, the detector, the XML assembly and the recognizers raise
\* exceptions of any class, ValueError among them.
PageFaults ==
  { Raise("ValueError", "could not convert string to float"),
    Raise("RuntimeError", "inference failed") }

\* process_single_image(img_path, ...): its possible outcomes [exc, result].
\* The result keeps the name of the image it was computed from.
process_single_image(img_path) ==
  {[exc |-> NoExc, result |-> [src |-> basename(img_path)]]}
    \cup {[exc |-> f, result |-> [src |-> basename(img_path)]] : f \in PageFaults}

\* enumerate(image_paths, start=1): the number of the k-th path.
PageNumMutOriginal(k, img_path) ==
  CHOOSE n \in 1..999 : basename(img_path) = PageFileName(n - 1)
page_num(k, img_path) == k

\* ---------------------------------------- ocr_engine.process_single_image

\* Number of layout classes the detection structure is prepared for.
NumClasses == 17

\* A float is mant * 10^-exp, its fraction without trailing zeros.
Float(mant, exp) == [mant |-> mant, exp |-> exp]

RECURSIVE TrimZeros(_)
TrimZeros(s) ==
  IF s # <<>> /\ s[Len(s)] = "0" THEN TrimZeros(SubSeq(s, 1, Len(s) - 1)) ELSE s

\* float(s) for the decimal literals: surrounding whitespace is ignored, one
\* sign is allowed, then digits with at most one point and at least one
\* digit; anything else raises ValueError.  (Exponents, "inf", "nan" and
\* underscores do not occur in the attribute texts drawn.)
PyFloat(s) ==
  LET t == Strip(s)
      signed == t # <<>> /\ Head(t) \in {"-", "+"}
      body == IF signed THEN Tail(t) ELSE t
      pointed == Contains(body, ".")
      ip == IF pointed THEN SplitOnce(body, ".")[1] ELSE body
      fp == IF pointed THEN SplitOnce(body, ".")[2] ELSE <<>>
      digits == ip \o TrimZeros(fp)
      ok == /\ \A i \in 1..Len(ip) : IsDigit(ip[i])
            /\ \A i \in 1..Len(fp) : IsDigit(fp[i])
            /\ Len(ip) + Len(fp) > 0
  IN IF ok
     THEN [exc |-> NoExc,
           val |-> Float(IF signed /\ Head(t) = "-" THEN 0 - DigitsVal(digits)
                         ELSE DigitsVal(digits),
                         Len(TrimZeros(fp)))]
     ELSE [exc |-> Raise("ValueError",
                         "could not convert string to float: '" \o Str(s) \o "'"),
           val |-> Float(0, 0)]

\* int(lineobj.get(name)): TypeError for an attribute the element lacks.
IntAttr(a) ==
  IF ~a.has
  THEN [exc |-> Raise("TypeError",
                      "int() argument must be a string, a bytes-like object or a real number, not 'NoneType'"),
        val |-> 0]
  ELSE PyInt(a.val)

\* try: float(lineobj.get(name)) except (TypeError, ValueError): default
FloatAttr(a, default) ==
  IF ~a.has THEN default
  ELSE IF PyFloat(a.val).exc # NoExc THEN default
  ELSE PyFloat(a.val).val

\* Step 2, lines 91-94: the empty detection structure.  resultobj[0] holds
\* the plain boxes of class 0, resultobj[1] the scored boxes of each class.
EmptyResultobj ==
  (0 :> (0 :> <<>>)) @@ (1 :> [i \in 0..(NumClasses - 1) |-> <<>>])

\* Lines 96-100 for one detection.
AppendDetMutPlainForAll(resultobj, det) ==
  LET box == det.box
      c == det.class_index
  IN (0 :> (0 :> Append(resultobj[0][0], box)))
       @@ (1 :> [resultobj[1] EXCEPT ![c] = Append(@, Append(box, det.confidence))])
AppendDet(resultobj, det) ==
  LET box == det.box
      c == det.class_index
      plain == IF c = 0 THEN Append(resultobj[0][0], box) ELSE resultobj[0][0]
  IN (0 :> (0 :> plain))
       @@ (1 :> [resultobj[1] EXCEPT ![c] = Append(@, Append(box, det.confidence))])

\* Lines 95-100: the loop over the detections; KeyError for a class that
\* resultobj[1] has no key for (the plain box of the detection is appended
\* before the scored one is).
RECURSIVE BucketLoop(_, _)
BucketLoop(detections, resultobj) ==
  IF detections = <<>> THEN [exc |-> NoExc, resultobj |-> resultobj]
  ELSE IF Head(detections).class_index \notin DOMAIN resultobj[1]
  THEN [exc |-> Raise("KeyError", NatStr(Head(detections).class_index)),
        resultobj |-> resultobj]
  ELSE BucketLoop(Tail(detections), AppendDet(resultobj, Head(detections)))

\* Lines 114-117: the four integers of a LINE element, or the exception of
\* the first attribute int() rejects.
LineBox(lineobj) ==
  LET xmin == IntAttr(lineobj.X)
      ymin == IntAttr(lineobj.Y)
      line_w == IntAttr(lineobj.WIDTH)
      line_h == IntAttr(lineobj.HEIGHT)
      bad == IF xmin.exc # NoExc THEN xmin.exc
             ELSE IF ymin.exc # NoExc THEN ymin.exc
             ELSE IF line_w.exc # NoExc THEN line_w.exc
             ELSE line_h.exc
  IN [exc |-> bad, xmin |-> xmin.val, ymin |-> ymin.val,
      line_w |-> line_w.val, line_h |-> line_h.val]

\* RecogLine(lineimg, idx, pred_char_cnt), lineimg the slice
\* img[ymin : ymin + line_h, xmin : xmin + line_w, :].
RecogLine(b, idx, pred_char_cnt) ==
  [lineimg |-> [rows |-> <<b.ymin, b.ymin + b.line_h>>,
                cols |-> <<b.xmin, b.xmin + b.line_w>>],
   idx |-> idx, pred_char_cnt |-> pred_char_cnt]

\* Step 4, lines 113-129: [exc, alllineobj, tatelinecnt, alllinecnt].
ExtractOne(b, lineobj, idx, acc) ==
  [exc |-> NoExc,
   alllineobj |->
     Append(acc.alllineobj,
            RecogLine(b, idx, FloatAttr(lineobj.PRED_CHAR_CNT, Float(100, 0)))),
   tatelinecnt |-> IF b.line_h > b.line_w THEN acc.tatelinecnt + 1
                   ELSE acc.tatelinecnt,
   alllinecnt |-> acc.alllinecnt + 1]

RECURSIVE ExtractLoop(_, _, _)
ExtractLoop(lines, idx, acc) ==
  IF lines = <<>> THEN acc
  ELSE IF LineBox(Head(lines)).exc # NoExc
  THEN [acc EXCEPT !.exc = LineBox(Head(lines)).exc]
  ELSE ExtractLoop(Tail(lines), idx + 1,
                   ExtractOne(LineBox(Head(lines)), Head(lines), idx, acc))

\* Line 151: resultlinesall[idx] if idx < len(resultlinesall) else ""
TextAtMutClamped(resultlinesall, idx) ==
  IF resultlinesall = <<>> THEN ""
  ELSE IF idx < Len(resultlinesall) THEN resultlinesall[idx + 1]
  ELSE resultlinesall[Len(resultlinesall)]
TextAt(resultlinesall, idx) ==
  IF idx < Len(resultlinesall) THEN resultlinesall[idx + 1] ELSE ""

\* Lines 152-164: the record of one line.
BoundingBoxMutClockwise(b) ==
  << <<b.xmin, b.ymin>>, <<b.xmin + b.line_w, b.ymin>>,
     <<b.xmin + b.line_w, b.ymin + b.line_h>>, <<b.xmin, b.ymin + b.line_h>> >>
BoundingBox(b) ==
  << <<b.xmin, b.ymin>>, <<b.xmin, b.ymin + b.line_h>>,
     <<b.xmin + b.line_w, b.ymin>>, <<b.xmin + b.line_w, b.ymin + b.line_h>> >>

JsonObj(b, lineobj, idx, resultlinesall) ==
  [boundingBox |-> BoundingBox(b),
   id |-> idx,
   isVertical |-> "true",
   text |-> TextAt(resultlinesall, idx),
   isTextline |-> "true",
   confidence |-> FloatAttr(lineobj.CONF, Float(0, 0))]

\* Step 6, lines 140-165: [exc, resjsonarray].
RECURSIVE AssembleLoop(_, _, _, _)
AssembleLoop(lines, idx, resultlinesall, resjsonarray) ==
  IF lines = <<>> THEN [exc |-> NoExc, resjsonarray |-> resjsonarray]
  ELSE IF LineBox(Head(lines)).exc # NoExc
  THEN [exc |-> LineBox(Head(lines)).exc, resjsonarray |-> resjsonarray]
  ELSE AssembleLoop(Tail(lines), idx + 1, resultlinesall,
                    Append(resjsonarray,
                           JsonObj(LineBox(Head(lines)), Head(lines), idx,
                                   resultlinesall)))

\* "\n".join(texts)
RECURSIVE JoinLines(_)
JoinLines(texts) ==
  IF texts = <<>> THEN ""
  ELSE IF Len(texts) = 1 THEN texts[1]
  ELSE texts[1] \o "\n" \o JoinLines(Tail(texts))

\* alltextlist[::-1]
Reversed(l) == [i \in 1..Len(l) |-> l[Len(l) + 1 - i]]

\* Lines 168-173: the page text.
PageTextMutReversesLines(resultlinesall, tatelinecnt, alllinecnt) ==
  IF alllinecnt > 0 /\ 2 * tatelinecnt > alllinecnt
  THEN JoinLines(Reversed(resultlinesall))
  ELSE JoinLines(resultlinesall)
PageText(resultlinesall, tatelinecnt, alllinecnt) ==
  LET alltextlist == <<JoinLines(resultlinesall)>>
  IN IF alllinecnt > 0 /\ 2 * tatelinecnt > alllinecnt
     THEN JoinLines(Reversed(alltextlist))
     ELSE JoinLines(alltextlist)

\* ------------------------------------------------------------------- inputs

\* Request ids of the contexts drawn; "" is a context without one.
RequestIds == {"", "req-1"}

S3UriPdf == <<"s", "3", ":", "/", "/", "b", "/", "p">>
S3UriJpeg == <<"s", "3", ":", "/", "/", "b", "/", "j">>
S3UriBadPdf == <<"s", "3", ":", "/", "/", "b", "/", "c">>
S3UriForbidden == <<"s", "3", ":", "/", "/", "b", "/", "d">>
S3UriMissing == <<"s", "3", ":", "/", "/", "b", "/", "x">>
S3UriNoKey == <<"s", "3", ":", "/", "/", "b">>
S3UriNoBucket == <<"s", "3", ":", "/", "/", "/", "k">>

\* base64 of "%PDF-" and of the digit n that follows it in a document of n
\* pages.
B64PdfMagic == <<"J", "V", "B", "E", "R", "i", "0">>
B64Pdf(n) == B64PdfMagic \o <<B64Alphabet[48 + n + 1]>>
\* base64 of "%PDF-" alone: the signature of a PDF and nothing to load.
B64BadPdf == B64PdfMagic \o <<"=">>
\* base64 of FF D8 FF
B64Jpeg == <<"/", "9", "j", "/">>
\* decodes (the characters outside the alphabet are skipped) to six bytes
\* that are no image
B64Junk == <<"n", "o", "t", "-", "v", "a", "l", "i", "d", "!", "!", "!">>
\* fourteen data characters: incorrect padding
B64BadPadding == <<"n", "o", "t", "-", "v", "a", "l", "i", "d", "-", "b", "a", "s", "e", "6", "4", "!", "!">>

ImageArgs ==
  {None, Some(<<>>)}
    \cup {Some(u) : u \in {S3UriPdf, S3UriJpeg, S3UriBadPdf, S3UriForbidden,
                           S3UriMissing, S3UriNoKey, S3UriNoBucket}}
    \cup {Some(B64Pdf(n)) : n \in 0..MaxPdfPages}
    \cup {Some(b) : b \in {B64BadPdf, B64Jpeg, B64Junk, B64BadPadding}}

PagesArgs ==
  {None, Some(<<>>)}
    \cup {Some(e) : e \in { <<"1", ",", "3">>,
                            <<"5">>,
                            <<"2", "-", "1">>,
                            <<"1", "-", "3">>,
                            <<"a">>,
                            <<"1", "-">>,
                            <<"-", "3">>,
                            <<"1", "-", "-", "2">>,
                            <<"1", ",", ",", "2">> }}

\* The OCR events and the upload-URL events drawn.
Events ==
  {[image |-> i, pages |-> g, filename |-> None] : i \in ImageArgs, g \in PagesArgs}
    \cup {[image |-> i, pages |-> None, filename |-> f] :
            i \in {None, Some(B64Jpeg)}, f \in {Some("scan.png")}}

NoEvent == [image |-> None, pages |-> None, filename |-> None]

\* uuid.uuid4() values drawn.
Uuids == {"uuid-1", "uuid-2"}

\* The callers of handler.  One Lambda execution environment serves one
\* invocation at a time: Serving is the caller it serves.
Procs == {1, 2}
Serving == {1}

\* ------------------------------------------------------------------- state

VARIABLES
  fs,            \* the paths that exist under /tmp
  _BUCKET_NAME,  \* os.environ.get("IMAGE_BUCKET", "") at module load
  context,       \* per caller: the aws_request_id of its context object
  pc,            \* per caller: where its invocation stands
  event,         \* per caller: the event of its invocation
  image_paths,   \* per caller: what parse_input returned
  pages,         \* per caller: the page results appended so far
  detected,      \* per caller: the images handed to process_single_image
  exc,           \* per caller: the exception its invocation caught
  ret,           \* per caller: the response of the return statement reached
  cleanup,       \* per caller: what the finally block did
  response,      \* per caller: the response handler() gave back
  sel_state,     \* parse_pages on its own: "off", "call" or "returned"
  sel_pages,     \* its pages_str argument
  sel_total,     \* its total_pages argument
  sel_out,       \* its outcome [exc, val]
  is_pdf,        \* per caller: the is_pdf parse_input returned
  eng_pc,        \* process_single_image on its own: the step it is at
  img,           \* its image: [img_w, img_h]
  detections,    \* what detector.detect returned
  resultobj,     \* the detection structure built from it
  root,          \* the LINE elements of the XML tree, in document order
  alllineobj,    \* the line objects handed to the recognizers
  tatelinecnt,   \* the lines taller than wide
  alllinecnt,    \* the lines
  resultlinesall, \* what process_cascade returned
  cascades,      \* the calls of process_cascade
  result,        \* the page result returned
  eng_exc        \* the exception process_single_image raised

hvars == <<fs, _BUCKET_NAME, context, pc, event, image_paths, pages, detected,
           exc, ret, cleanup, response, is_pdf>>
svars == <<sel_state, sel_pages, sel_total, sel_out>>
evars == <<eng_pc, img, detections, resultobj, root, alllineobj, tatelinecnt,
           alllinecnt, resultlinesall, cascades, result, eng_exc>>
vars == <<hvars, svars, evars>>

work_dir(p) == WorkDirOf(context[p])

\* The state after module load, before any invocation.
HandlerInit ==
  /\ fs = {}
  /\ _BUCKET_NAME \in {"", "ocr-images"}
  /\ context \in [Procs -> RequestIds]
  /\ \A p \in Procs \ Serving : context[p] = ""
  /\ pc = [p \in Procs |-> "idle"]
  /\ event = [p \in Procs |-> NoEvent]
  /\ image_paths = [p \in Procs |-> <<>>]
  /\ pages = [p \in Procs |-> <<>>]
  /\ detected = [p \in Procs |-> <<>>]
  /\ exc = [p \in Procs |-> NoExc]
  /\ ret = [p \in Procs |-> NoResponse]
  /\ cleanup = [p \in Procs |-> "none"]
  /\ response = [p \in Procs |-> NoResponse]
  /\ is_pdf = [p \in Procs |-> FALSE]

SelOff ==
  /\ sel_state = "off"
  /\ sel_pages = None
  /\ sel_total = 0
  /\ sel_out = [exc |-> NoExc, val |-> <<>>]

\* The locals of process_single_image before its first statement.
EngLocals ==
  /\ img = [img_w |-> 0, img_h |-> 0]
  /\ detections = <<>>
  /\ resultobj = EmptyResultobj
  /\ root = <<>>
  /\ alllineobj = <<>>
  /\ tatelinecnt = 0
  /\ alllinecnt = 0
  /\ resultlinesall = <<>>
  /\ cascades = 0
  /\ result = [text |-> "", imginfo |-> [img_width |-> 0, img_height |-> 0],
               contents |-> <<>>]
  /\ eng_exc = NoExc

\* process_single_image is not running on its own.
EngOff == eng_pc = "off" /\ EngLocals

Init == HandlerInit /\ SelOff /\ EngOff

\* ----------------------------------------------------------------- actions

\* handler(event, context), lines 152-160 and 112-113: a new invocation is
\* routed on the event's "filename" key.
handlerMutRoutesOnImage(p) ==
  /\ pc[p] \in {"idle", "done"}
  /\ \E ev \in Events :
       /\ event' = [event EXCEPT ![p] = ev]
       /\ pc' = [pc EXCEPT ![p] = IF ev.filename.has /\ ~ev.image.has
                                  THEN "upload" ELSE "parse"]
  /\ image_paths' = [image_paths EXCEPT ![p] = <<>>]
  /\ pages' = [pages EXCEPT ![p] = <<>>]
  /\ detected' = [detected EXCEPT ![p] = <<>>]
  /\ exc' = [exc EXCEPT ![p] = NoExc]
  /\ ret' = [ret EXCEPT ![p] = NoResponse]
  /\ cleanup' = [cleanup EXCEPT ![p] = "none"]
  /\ response' = [response EXCEPT ![p] = NoResponse]
  /\ is_pdf' = [is_pdf EXCEPT ![p] = FALSE]
  /\ UNCHANGED <<fs, _BUCKET_NAME, context, svars, evars>>
handler(p) ==
  /\ pc[p] \in {"idle", "done"}
  /\ \E ev \in Events :
       /\ event' = [event EXCEPT ![p] = ev]
       /\ pc' = [pc EXCEPT ![p] = IF ev.filename.has THEN "upload" ELSE "parse"]
  /\ image_paths' = [image_paths EXCEPT ![p] = <<>>]
  /\ pages' = [pages EXCEPT ![p] = <<>>]
  /\ detected' = [detected EXCEPT ![p] = <<>>]
  /\ exc' = [exc EXCEPT ![p] = NoExc]
  /\ ret' = [ret EXCEPT ![p] = NoResponse]
  /\ cleanup' = [cleanup EXCEPT ![p] = "none"]
  /\ response' = [response EXCEPT ![p] = NoResponse]
  /\ is_pdf' = [is_pdf EXCEPT ![p] = FALSE]
  /\ UNCHANGED <<fs, _BUCKET_NAME, context, svars, evars>>

\* _handle_get_upload_url(event), lines 86-107.
_handle_get_upload_url(p) ==
  /\ pc[p] = "upload"
  /\ \E u \in Uuids :
       LET filename == event[p].filename.val
           key == "uploads/" \o u \o "/" \o filename
       IN response' = [response EXCEPT ![p] =
            IF _BUCKET_NAME = ""
            THEN [statusCode |-> 500,
                  body |-> [error |-> "IMAGE_BUCKET not configured"]]
            ELSE [statusCode |-> 200,
                  body |-> [upload_url |-> "https://" \o _BUCKET_NAME
                                            \o ".s3.amazonaws.com/" \o key,
                            s3_uri |-> "s3://" \o _BUCKET_NAME \o "/" \o key]]]
  /\ pc' = [pc EXCEPT ![p] = "done"]
  /\ UNCHANGED <<fs, _BUCKET_NAME, context, event, image_paths, pages, detected,
                 exc, ret, cleanup, is_pdf, svars, evars>>

\* _handle_ocr, line 116 (and the except clause that catches its failure):
\* got is what parse_input gave.
Parsed(p, got) ==
  /\ fs' = got.fs
  /\ exc' = [exc EXCEPT ![p] = got.exc]
  /\ image_paths' = [image_paths EXCEPT ![p] = got.image_paths]
  /\ is_pdf' = [is_pdf EXCEPT ![p] = got.is_pdf]
  /\ ret' = [ret EXCEPT ![p] =
               IF got.exc = NoExc THEN NoResponse ELSE Except(got.exc)]
  /\ pc' = [pc EXCEPT ![p] = IF got.exc = NoExc THEN "loop" ELSE "finally"]

HandleOcrParse(p) ==
  /\ pc[p] = "parse"
  /\ Parsed(p, parse_input(event[p], work_dir(p), fs))
  /\ UNCHANGED <<_BUCKET_NAME, context, event, pages, detected, cleanup,
                 response, svars, evars>>

\* _handle_ocr, lines 119-129: one turn of the loop over image_paths (and
\* the except clause that catches its failure).
HandleOcrPageMutPartialResult(p) ==
  /\ pc[p] = "loop"
  /\ Len(pages[p]) < Len(image_paths[p])
  /\ LET k == Len(pages[p]) + 1
         img_path == image_paths[p][k]
     IN \E out \in process_single_image(img_path) :
          /\ detected' = [detected EXCEPT ![p] = Append(@, img_path)]
          /\ IF out.exc = NoExc
             THEN /\ pages' = [pages EXCEPT ![p] =
                         Append(@, [page |-> page_num(k, img_path),
                                    src |-> out.result.src])]
                  /\ UNCHANGED <<exc, ret, pc>>
             ELSE /\ exc' = [exc EXCEPT ![p] = out.exc]
                  /\ ret' = [ret EXCEPT ![p] =
                              [statusCode |-> 200, body |-> [pages |-> pages[p]]]]
                  /\ pc' = [pc EXCEPT ![p] = "finally"]
                  /\ UNCHANGED pages
  /\ UNCHANGED <<fs, _BUCKET_NAME, context, event, image_paths, cleanup,
                 response, is_pdf, svars, evars>>
HandleOcrPage(p) ==
  /\ pc[p] = "loop"
  /\ Len(pages[p]) < Len(image_paths[p])
  /\ LET k == Len(pages[p]) + 1
         img_path == image_paths[p][k]
         missing == Raise("RuntimeError",
                          "Expected image file not found: " \o basename(img_path))
     IN IF ~exists(fs, img_path)
        THEN /\ exc' = [exc EXCEPT ![p] = missing]
             /\ ret' = [ret EXCEPT ![p] = Except(missing)]
             /\ pc' = [pc EXCEPT ![p] = "finally"]
             /\ UNCHANGED <<pages, detected>>
        ELSE \E out \in process_single_image(img_path) :
               /\ detected' = [detected EXCEPT ![p] = Append(@, img_path)]
               /\ IF out.exc = NoExc
                  THEN /\ pages' = [pages EXCEPT ![p] =
                              Append(@, [page |-> page_num(k, img_path),
                                         src |-> out.result.src])]
                       /\ UNCHANGED <<exc, ret, pc>>
                  ELSE /\ exc' = [exc EXCEPT ![p] = out.exc]
                       /\ ret' = [ret EXCEPT ![p] = Except(out.exc)]
                       /\ pc' = [pc EXCEPT ![p] = "finally"]
                       /\ UNCHANGED pages
  /\ UNCHANGED <<fs, _BUCKET_NAME, context, event, image_paths, cleanup,
                 response, is_pdf, svars, evars>>

\* _handle_ocr, lines 131-134: the loop is over, the pages are returned.
HandleOcrReturn(p) ==
  /\ pc[p] = "loop"
  /\ Len(pages[p]) = Len(image_paths[p])
  /\ ret' = [ret EXCEPT ![p] = [statusCode |-> 200, body |-> [pages |-> pages[p]]]]
  /\ pc' = [pc EXCEPT ![p] = "finally"]
  /\ UNCHANGED <<fs, _BUCKET_NAME, context, event, image_paths, pages, detected,
                 exc, cleanup, response, is_pdf, svars, evars>>

\* The response the caller gets once the finally block is through: the one
\* of the return statement reached (the block returns nothing and, with
\* ignore_errors=True, raises nothing), whatever became of the removal.
ReturnedMutRemovalErrorEscapes(r, removal) ==
  IF removal = "failed" THEN NoResponse ELSE r
Returned(r, removal) == r

\* _handle_ocr, lines 147-149: the finally block, then the caller has its
\* response.
HandleOcrFinally(p) ==
  /\ pc[p] = "finally"
  /\ IF exists(fs, work_dir(p))
     THEN \E after \in rmtree(fs, work_dir(p)) :
            /\ fs' = after.fs
            /\ cleanup' = [cleanup EXCEPT ![p] =
                             IF after.failed THEN "failed" ELSE "removed"]
     ELSE /\ fs' = fs
          /\ cleanup' = [cleanup EXCEPT ![p] = "absent"]
  /\ response' = [response EXCEPT ![p] = Returned(ret[p], cleanup'[p])]
  /\ pc' = [pc EXCEPT ![p] = IF ret[p] = NoResponse THEN "raised" ELSE "done"]
  /\ UNCHANGED <<_BUCKET_NAME, context, event, image_paths, pages, detected,
                 exc, ret, is_pdf, svars, evars>>

Step(p) ==
  \/ handler(p)
  \/ _handle_get_upload_url(p)
  \/ HandleOcrParse(p)
  \/ HandleOcrPage(p)
  \/ HandleOcrReturn(p)
  \/ HandleOcrFinally(p)

Next == \E p \in Serving : Step(p)

Spec == Init /\ [][Next]_vars

\* --------------------------------------------- parse_pages as a function

\* Characters of the page-selection expressions drawn.
ExprChars == {"1", "2", "3", ",", "-", " ", "a"}

ExprsUpTo(n) == UNION {[1..k -> ExprChars] : k \in 0..n}

SelInit ==
  /\ sel_state = "call"
  /\ sel_pages \in {None} \cup {Some(e) : e \in ExprsUpTo(MaxExprLen)}
  /\ sel_total \in 0..MaxTotalPages
  /\ sel_out = [exc |-> NoExc, val |-> <<>>]

InitPages ==
  /\ HandlerInit
  /\ _BUCKET_NAME = ""
  /\ \A p \in Procs : context[p] = ""
  /\ SelInit
  /\ EngOff

SelCall ==
  /\ sel_state = "call"
  /\ sel_out' = parse_pages(sel_pages, sel_total)
  /\ sel_state' = "returned"
  /\ UNCHANGED <<sel_pages, sel_total, hvars, evars>>

SpecPages == InitPages /\ [][SelCall]_vars

\* ------------------------------------- process_single_image as a function

\* Most detections drawn for one page.
MaxDetections == 2
\* Most LINE elements drawn for one page.
MaxLines == 2

SeqsUpTo(S, n) == UNION {[1..k -> S] : k \in 0..n}

\* Page images drawn.
EngImages == {[img_w |-> 8, img_h |-> 6]}

\* Detections drawn: a text line (class 0), two other layout classes, and a
\* class the structure has no key for.
Dets ==
  { [box |-> <<1, 2, 6, 4>>, confidence |-> 90, class_index |-> 0],
    [box |-> <<0, 0, 8, 6>>, confidence |-> 80, class_index |-> 1],
    [box |-> <<2, 1, 3, 5>>, confidence |-> 70, class_index |-> NumClasses - 1],
    [box |-> <<0, 0, 1, 1>>, confidence |-> 60, class_index |-> NumClasses] }

\* detector.detect(img): a list of detections, or a fault of the detector.
Detect ==
  {[exc |-> NoExc, detections |-> d] : d \in SeqsUpTo(Dets, MaxDetections)}
    \cup {[exc |-> Raise("RuntimeError", "inference failed"), detections |-> <<>>]}

LineElem(x, y, w, h, cnt, conf) ==
  [X |-> x, Y |-> y, WIDTH |-> w, HEIGHT |-> h, PRED_CHAR_CNT |-> cnt, CONF |-> conf]

\* LINE elements drawn: a horizontal line, a vertical line whose confidence
\* does not parse, a square line without confidence, a line whose X is no
\* integer literal and a line without WIDTH.
Lines ==
  { LineElem(Some(<<"1">>), Some(<<"2">>), Some(<<"5">>), Some(<<"2">>),
             Some(<<"1", "2", ".", "0">>), Some(<<"0", ".", "9", "5">>)),
    LineElem(Some(<<"0">>), Some(<<"0">>), Some(<<"1">>), Some(<<"4">>),
             None, Some(<<"a", "b", "c">>)),
    LineElem(Some(<<"3">>), Some(<<"1">>), Some(<<"2">>), Some(<<"2">>),
             Some(<<"x">>), None),
    LineElem(Some(<<"1", ".", "5">>), Some(<<"2">>), Some(<<"5">>), Some(<<"2">>),
             None, Some(<<"0", ".", "5">>)),
    LineElem(Some(<<"1">>), Some(<<"2">>), None, Some(<<"2">>),
             None, Some(<<"0", ".", "5">>)) }

\* convert_to_xml_string3, ET.fromstring, eval_xml and root.findall(".//LINE"):
\* the LINE elements in reading order, or a fault of the assembly.
Assemble ==
  {[exc |-> NoExc, root |-> l] : l \in SeqsUpTo(Lines, MaxLines)}
    \cup {[exc |-> Raise("RecursionError", "maximum recursion depth exceeded"),
           root |-> <<>>]}

\* Texts the recognizers give.
Texts == {"ab", "c"}

\* process_cascade(alllineobj, ...): a list of texts, by contract one per
\* line object, possibly shorter or one longer; or a fault of a recognizer.
Cascade(lineobjs) ==
  {[exc |-> NoExc, resultlinesall |-> t] : t \in SeqsUpTo(Texts, Len(lineobjs) + 1)}
    \cup {[exc |-> Raise("RuntimeError", "inference failed"), resultlinesall |-> <<>>]}

EngRaise(e) ==
  /\ eng_exc' = e
  /\ eng_pc' = "raised"

\* Lines 81-84: the image is opened.
EngOpen ==
  /\ eng_pc = "open"
  /\ img' \in EngImages
  /\ eng_pc' = "detect"
  /\ UNCHANGED <<detections, resultobj, root, alllineobj, tatelinecnt, alllinecnt,
                 resultlinesall, cascades, result, eng_exc, hvars, svars>>

\* Step 1, lines 87-88.
EngDetect ==
  /\ eng_pc = "detect"
  /\ \E out \in Detect :
       IF out.exc # NoExc
       THEN EngRaise(out.exc) /\ UNCHANGED detections
       ELSE /\ detections' = out.detections
            /\ eng_pc' = "bucketize"
            /\ UNCHANGED eng_exc
  /\ UNCHANGED <<img, resultobj, root, alllineobj, tatelinecnt, alllinecnt,
                 resultlinesall, cascades, result, hvars, svars>>

\* Step 2, lines 91-100.
Bucketized(out) ==
  /\ resultobj' = out.resultobj
  /\ IF out.exc # NoExc THEN EngRaise(out.exc)
     ELSE eng_pc' = "assemble" /\ UNCHANGED eng_exc

EngBucketize ==
  /\ eng_pc = "bucketize"
  /\ Bucketized(BucketLoop(detections, EmptyResultobj))
  /\ UNCHANGED <<img, detections, root, alllineobj, tatelinecnt, alllinecnt,
                 resultlinesall, cascades, result, hvars, svars>>

\* Step 3, lines 103-106.
EngAssemble ==
  /\ eng_pc = "assemble"
  /\ \E out \in Assemble :
       IF out.exc # NoExc
       THEN EngRaise(out.exc) /\ UNCHANGED root
       ELSE /\ root' = out.root
            /\ eng_pc' = "extract"
            /\ UNCHANGED eng_exc
  /\ UNCHANGED <<img, detections, resultobj, alllineobj, tatelinecnt, alllinecnt,
                 resultlinesall, cascades, result, hvars, svars>>

\* Step 4, lines 109-129.
Extracted(out) ==
  /\ alllineobj' = out.alllineobj
  /\ tatelinecnt' = out.tatelinecnt
  /\ alllinecnt' = out.alllinecnt
  /\ IF out.exc # NoExc THEN EngRaise(out.exc)
     ELSE eng_pc' = "recognize" /\ UNCHANGED eng_exc

EngExtract ==
  /\ eng_pc = "extract"
  /\ Extracted(ExtractLoop(root, 0, [exc |-> NoExc, alllineobj |-> <<>>,
                                     tatelinecnt |-> 0, alllinecnt |-> 0]))
  /\ UNCHANGED <<img, detections, resultobj, root, resultlinesall, cascades,
                 result, hvars, svars>>

\* Step 5, lines 132-137.
EngRecognizeMutAlwaysCalls ==
  /\ eng_pc = "recognize"
  /\ \E out \in Cascade(alllineobj) :
       /\ cascades' = cascades + 1
       /\ IF out.exc # NoExc
          THEN EngRaise(out.exc) /\ UNCHANGED resultlinesall
          ELSE /\ resultlinesall' = out.resultlinesall
               /\ eng_pc' = "json"
               /\ UNCHANGED eng_exc
  /\ UNCHANGED <<img, detections, resultobj, root, alllineobj, tatelinecnt,
                 alllinecnt, result, hvars, svars>>
EngRecognize ==
  /\ eng_pc = "recognize"
  /\ IF alllineobj # <<>>
     THEN \E out \in Cascade(alllineobj) :
            /\ cascades' = cascades + 1
            /\ IF out.exc # NoExc
               THEN EngRaise(out.exc) /\ UNCHANGED resultlinesall
               ELSE /\ resultlinesall' = out.resultlinesall
                    /\ eng_pc' = "json"
                    /\ UNCHANGED eng_exc
     ELSE /\ resultlinesall' = <<>>
          /\ eng_pc' = "json"
          /\ UNCHANGED <<cascades, eng_exc>>
  /\ UNCHANGED <<img, detections, resultobj, root, alllineobj, tatelinecnt,
                 alllinecnt, result, hvars, svars>>

\* Step 6 and the return, lines 140-179.
Assembled(out) ==
  IF out.exc # NoExc THEN EngRaise(out.exc) /\ UNCHANGED result
  ELSE /\ result' = [text |-> PageText(resultlinesall, tatelinecnt, alllinecnt),
                     imginfo |-> [img_width |-> img.img_w, img_height |-> img.img_h],
                     contents |-> out.resjsonarray]
       /\ eng_pc' = "returned"
       /\ UNCHANGED eng_exc

EngJson ==
  /\ eng_pc = "json"
  /\ Assembled(AssembleLoop(root, 0, resultlinesall, <<>>))
  /\ UNCHANGED <<img, detections, resultobj, root, alllineobj, tatelinecnt,
                 alllinecnt, resultlinesall, cascades, hvars, svars>>

EngNext ==
  \/ EngOpen
  \/ EngDetect
  \/ EngBucketize
  \/ EngAssemble
  \/ EngExtract
  \/ EngRecognize
  \/ EngJson

InitEngine ==
  /\ HandlerInit
  /\ _BUCKET_NAME = ""
  /\ \A p \in Procs : context[p] = ""
  /\ SelOff
  /\ EngLocals
  /\ eng_pc = "open"

SpecEngine == InitEngine /\ [][EngNext]_vars

\* ------------------------------------------- two invocations on one host

\* The OCR events drawn when two callers run at once.
ConcEvents ==
  {[image |-> i, pages |-> None, filename |-> None] :
     i \in {Some(B64Pdf(2)), Some(B64Jpeg), None}}

\* A host that runs handler in two threads: the statements of the two
\* invocations interleave, and /tmp is the same for both.
StepConc(p) ==
  \/ handler(p) /\ event'[p] \in ConcEvents
  \/ HandleOcrParse(p)
  \/ HandleOcrPage(p)
  \/ HandleOcrReturn(p)
  \/ HandleOcrFinally(p)

NextConc == \E p \in Procs : StepConc(p)

InitConc ==
  /\ HandlerInit
  /\ _BUCKET_NAME = ""
  /\ SelOff
  /\ EngOff

SpecConc == InitConc /\ [][NextConc]_vars

\* ================================================================== claims

\* The OCR invocation of caller p is over.
OcrDone(p) == pc[p] \in {"done", "raised"} /\ ~event[p].filename.has

\* The bytes parse_input sniffs for caller p's event: [exc, fs, data].
InputOf(p) == Materialize(event[p].image.val, work_dir(p), {})

\* C1 as stated: after any OCR invocation, whichever way it ends, the
\* working directory /tmp/<request_id> does not exist.
C1_WorkDirGone ==
  \A p \in Procs : OcrDone(p) => ~exists(fs, work_dir(p))

\* C1 amended: after any OCR invocation the finally block has run, the
\* working directory does not exist unless its removal failed, and the
\* caller has the response of the return statement reached, whatever became
\* of the removal.
C1_CleanupBestEffort ==
  \A p \in Procs :
    OcrDone(p) =>
      /\ cleanup[p] \in {"absent", "removed", "failed"}
      /\ (cleanup[p] # "failed" => ~exists(fs, work_dir(p)))
      /\ response[p] = ret[p]
      /\ response[p].statusCode \in {200, 400, 500}

\* An invocation answered 200 whose removal failed: the directory is left.
C1_Witness ==
  \E p \in Procs :
    /\ OcrDone(p)
    /\ cleanup[p] = "failed"
    /\ exists(fs, work_dir(p))
    /\ response[p].statusCode = 200

\* C2: no fault goes past _handle_ocr; every OCR invocation ends with a
\* response of status 200, 400 or 500, a 200 body holding exactly a "pages"
\* list and a 400 or 500 body exactly an "error".
C2_ResponseShape ==
  \A p \in Procs :
    /\ pc[p] # "raised"
    /\ OcrDone(p) =>
         /\ response[p].statusCode \in {200, 400, 500}
         /\ response[p].statusCode = 200 =>
              /\ DOMAIN response[p].body = {"pages"}
              /\ DOMAIN response[p].body.pages = 1..Len(response[p].body.pages)
         /\ response[p].statusCode # 200 => DOMAIN response[p].body = {"error"}

\* A fault of the per-page stage that is no ValueError, answered 500.
C2_Witness ==
  \E p \in Procs :
    /\ OcrDone(p)
    /\ exc[p].cls = "RuntimeError"
    /\ detected[p] # <<>>
    /\ response[p].statusCode = 500
    /\ DOMAIN response[p].body = {"error"}

\* C3: an OCR event whose "image" is absent or empty is answered 400 with
\* the message "Missing required parameter: image".
C3_MissingImage ==
  \A p \in Procs :
    (OcrDone(p) /\ (~event[p].image.has \/ event[p].image.val = <<>>)) =>
      /\ response[p].statusCode = 400
      /\ response[p].body = [error |-> "Missing required parameter: image"]

\* The event {"image": ""} answered 400.
C3_Witness ==
  \E p \in Procs :
    /\ OcrDone(p)
    /\ event[p].image = Some(<<>>)
    /\ response[p].statusCode = 400

\* C4: an "image" that is no s3:// reference and either fails base64
\* decoding or decodes to bytes that are neither a PDF nor an image the
\* codec opens is answered 400.
C4_UndecodableInline ==
  \A p \in Procs :
    (/\ OcrDone(p)
     /\ event[p].image.has
     /\ event[p].image.val # <<>>
     /\ ~_is_s3_uri(event[p].image.val)
     /\ \/ b64decode(event[p].image.val).exc # NoExc
        \/ /\ ~_is_pdf(b64decode(event[p].image.val).data)
           /\ ImageOpen(b64decode(event[p].image.val).data) # NoExc)
    => response[p].statusCode = 400

\* "not-valid!!!" decodes, to bytes that are no image, and is answered 400.
C4_Witness ==
  \E p \in Procs :
    /\ OcrDone(p)
    /\ event[p].image = Some(B64Junk)
    /\ b64decode(B64Junk).exc = NoExc
    /\ response[p].statusCode = 400

\* C5 as stated: an s3:// reference whose retrieval fails (malformed URI,
\* missing object, access denied) is answered 400.
C5_UnreadableRemoteIs400 ==
  \A p \in Procs :
    (/\ OcrDone(p)
     /\ event[p].image.has
     /\ _is_s3_uri(event[p].image.val)
     /\ InputOf(p).exc # NoExc)
    => response[p].statusCode = 400

\* C6 as stated: bytes that cannot be decoded as an image, and bytes that
\* start with the PDF signature and cannot be opened as a PDF, are answered
\* 400, never 500.
C6_DecodeFailuresAre400 ==
  \A p \in Procs :
    (/\ OcrDone(p)
     /\ event[p].image.has
     /\ event[p].image.val # <<>>
     /\ InputOf(p).exc = NoExc
     /\ \/ _is_pdf(InputOf(p).data) /\ PdfDocument(InputOf(p).data).exc # NoExc
        \/ ~_is_pdf(InputOf(p).data) /\ ImageOpen(InputOf(p).data) # NoExc)
    => response[p].statusCode = 400

\* The tokens of a page-selection expression: its maximal comma-free parts.
TokensOf(e) ==
  {SubSeq(e, i, j) : i \in 1..(Len(e) + 1), j \in 0..Len(e)} \cap
  {t \in UNION {[1..n -> Range(e)] : n \in 0..Len(e)} :
     \E i \in 1..(Len(e) + 1), j \in 0..Len(e) :
       /\ i <= j + 1
       /\ t = SubSeq(e, i, j)
       /\ i = 1 \/ e[i - 1] = ","
       /\ j = Len(e) \/ e[j + 1] = ","
       /\ \A k \in i..j : e[k] # ","}

\* Digits only, at least one, blanks around them and a "+" before them
\* allowed.
NumberText(s) ==
  \E a \in 1..Len(s), b \in 1..Len(s) :
    /\ a <= b
    /\ \A k \in 1..(a - 1) : s[k] = " " \/ (k = a - 1 /\ s[k] = "+")
    /\ \A k \in a..b : IsDigit(s[k])
    /\ \A k \in (b + 1)..Len(s) : s[k] = " "

\* A number, or a number with a minus sign before its first digit.
SignedNumberText(s) ==
  \/ NumberText(s)
  \/ \E m \in 1..Len(s) :
       /\ s[m] = "-"
       /\ m < Len(s) /\ IsDigit(s[m + 1])
       /\ \A k \in 1..(m - 1) : s[k] = " "
       /\ NumberText(SubSeq(s, m + 1, Len(s)))

\* A token is well formed when it is a number, or a number, a hyphen and a
\* number (the second one possibly negative).
WellFormedToken(t) ==
  \/ NumberText(t)
  \/ \E h \in 1..Len(t) :
       /\ t[h] = "-"
       /\ NumberText(SubSeq(t, 1, h - 1))
       /\ SignedNumberText(SubSeq(t, h + 1, Len(t)))

MalformedSelection(pg) ==
  pg.has /\ pg.val # <<>> /\ \E t \in TokensOf(pg.val) : ~WellFormedToken(t)

\* C7: for a PDF input, a page-selection expression with a token that is
\* neither a number nor a number-hyphen-number range makes parse_pages raise
\* ValueError; the invocation is answered 400 and no page is processed.
C7_MalformedSelection ==
  \A p \in Procs :
    (/\ OcrDone(p)
     /\ event[p].image.has
     /\ event[p].image.val # <<>>
     /\ InputOf(p).exc = NoExc
     /\ _is_pdf(InputOf(p).data)
     /\ PdfDocument(InputOf(p).data).exc = NoExc
     /\ MalformedSelection(event[p].pages))
    => /\ parse_pages(event[p].pages,
                      PdfDocument(InputOf(p).data).total_pages).exc.cls = "ValueError"
       /\ exc[p].cls = "ValueError"
       /\ response[p].statusCode = 400
       /\ detected[p] = <<>>
       /\ pages[p] = <<>>

\* A three-page PDF with pages "1-" answered 400.
C7_Witness ==
  \E p \in Procs :
    /\ OcrDone(p)
    /\ event[p].image = Some(B64Pdf(3))
    /\ event[p].pages = Some(<<"1", "-">>)
    /\ response[p].statusCode = 400
    /\ detected[p] = <<>>

\* C8: a 200 response has one entry per normalized page image (one for a
\* raster image, one per selected in-range page for a PDF), in ascending
\* order of the selected pages, and its k-th entry has page = k whatever the
\* page's number in the document.
C8_SequentialNumbering ==
  \A p \in Procs :
    (OcrDone(p) /\ response[p].statusCode = 200) =>
      LET out == response[p].body.pages
          data == InputOf(p).data
          sel == parse_pages(event[p].pages, PdfDocument(data).total_pages).val
      IN /\ Len(out) = Len(image_paths[p])
         /\ \A k \in 1..Len(out) :
              out[k].page = k /\ out[k].src = basename(image_paths[p][k])
         /\ IF _is_pdf(data)
            THEN /\ Len(out) = Cardinality(Range(sel))
                 /\ \A k \in 1..Len(out) : out[k].src = PageFileName(sel[k])
                 /\ \A j \in 1..Len(out), k \in 1..Len(out) :
                      j < k => sel[j] < sel[k]
            ELSE Len(out) = 1 /\ out[1].src = "page_001.jpg"

\* A three-page PDF with pages "1,3": pages 1 and 3 come back numbered 1, 2.
C8_Witness ==
  \E p \in Procs :
    /\ OcrDone(p)
    /\ event[p].image = Some(B64Pdf(3))
    /\ event[p].pages = Some(<<"1", ",", "3">>)
    /\ response[p].statusCode = 200
    /\ response[p].body.pages =
         << [page |-> 1, src |-> "page_001.jpg"],
            [page |-> 2, src |-> "page_003.jpg"] >>

\* C9: whenever parse_pages returns, its list is strictly ascending and
\* every element e has 0 <= e < total_pages.
C9_AscendingInRange ==
  (sel_state = "returned" /\ sel_out.exc = NoExc) =>
    /\ \A i \in 1..Len(sel_out.val), j \in 1..Len(sel_out.val) :
         i < j => sel_out.val[i] < sel_out.val[j]
    /\ \A i \in 1..Len(sel_out.val) :
         0 <= sel_out.val[i] /\ sel_out.val[i] < sel_total

\* Pages named out of order, returned in order.
C9_Witness ==
  /\ sel_state = "returned"
  /\ sel_out.exc = NoExc
  /\ sel_pages = Some(<<"2", ",", "1">>)
  /\ sel_out.val = <<0, 1>>

\* C10: parse_pages with no expression (None or the empty string) returns
\* exactly 0..N-1, the empty list when N = 0.
C10_AllPages ==
  (sel_state = "returned" /\ (~sel_pages.has \/ sel_pages.val = <<>>)) =>
    /\ sel_out.exc = NoExc
    /\ Len(sel_out.val) = sel_total
    /\ \A i \in 1..sel_total : sel_out.val[i] = i - 1

\* parse_pages(None, N) returned for an N of at least two.
C10_Witness ==
  /\ sel_state = "returned"
  /\ sel_pages = None
  /\ sel_total >= 2
  /\ Len(sel_out.val) = sel_total


\* The number a token part writes: its digits read in base ten, negative
\* when a minus sign stands before them.
NumVal(s) ==
  IF Contains(s, "-") THEN 0 - DigitsVal(SelectSeq(s, IsDigit))
  ELSE DigitsVal(SelectSeq(s, IsDigit))

WellFormedSelection(pg) ==
  pg.has /\ pg.val # <<>> /\ \A t \in TokensOf(pg.val) : WellFormedToken(t)

\* Token t selects the 1-based page q of a document of n pages.
TokenSelects(t, q, n) ==
  \/ NumberText(t) /\ NumVal(t) = q /\ 1 <= q /\ q <= n
  \/ \E h \in 1..Len(t) :
       /\ t[h] = "-"
       /\ NumberText(SubSeq(t, 1, h - 1))
       /\ LET start == NumVal(SubSeq(t, 1, h - 1))
              end == NumVal(SubSeq(t, h + 1, Len(t)))
          IN /\ (IF start > 1 THEN start ELSE 1) <= q
             /\ q <= (IF end < n THEN end ELSE n)

\* C11: for a well-formed non-empty expression parse_pages returns exactly
\* the indices p-1 of the pages p that some token selects: a single number p
\* within 1..total_pages, or a range start-end with max(1,start) <= p <=
\* min(total_pages,end); values out of range are dropped without error and
\* an inverted range adds nothing.
C11_ExactSelection ==
  (sel_state = "returned" /\ WellFormedSelection(sel_pages)) =>
    /\ sel_out.exc = NoExc
    /\ Range(sel_out.val) =
         {q - 1 : q \in {r \in 1..sel_total :
                           \E t \in TokensOf(sel_pages.val) :
                             TokenSelects(t, r, sel_total)}}

\* "2-3" on a document of two pages: page 3 is dropped, page 2 is kept.
C11_Witness ==
  /\ sel_state = "returned"
  /\ sel_pages = Some(<<"2", "-", "3">>)
  /\ sel_total = 2
  /\ sel_out = [exc |-> NoExc, val |-> <<1>>]

\* An inverted range on its own selects nothing.
C11_WitnessInverted ==
  /\ sel_state = "returned"
  /\ sel_pages = Some(<<"2", "-", "1">>)
  /\ sel_total = 3
  /\ sel_out = [exc |-> NoExc, val |-> <<>>]


\* The k-th LINE element's integer attribute, read digit by digit.
AttrVal(a) == NumVal(a.val)

\* C12: a page result has one contents record per LINE element, in document
\* order; record i has id = i and the i-th text of the recognition cascade,
\* the empty string when the cascade returned fewer than i+1 texts.
C12_TextsAligned ==
  eng_pc = "returned" =>
    /\ Len(result.contents) = Len(root)
    /\ \A i \in 0..(Len(root) - 1) :
         /\ result.contents[i + 1].id = i
         /\ result.contents[i + 1].boundingBox[1] =
              <<AttrVal(root[i + 1].X), AttrVal(root[i + 1].Y)>>
         /\ result.contents[i + 1].text =
              IF i + 1 <= Len(resultlinesall) THEN resultlinesall[i + 1] ELSE ""

\* Two lines and a cascade that returned one text: the second record's text
\* is empty, not the first line's.
C12_Witness ==
  /\ eng_pc = "returned"
  /\ Len(root) = 2
  /\ resultlinesall = <<"ab">>
  /\ result.contents[1].text = "ab"
  /\ result.contents[2].text = ""
  /\ result.contents[2].id = 1

\* The detections of class c, in input order.
OfClass(c) == SelectSeq(detections, LAMBDA d : d.class_index = c)

C18_NoLinesNoCascade ==
  (root = <<>> /\ eng_pc \in {"extract", "recognize", "json", "returned"}) =>
    /\ cascades = 0
    /\ eng_pc = "returned" => result.contents = <<>> /\ result.text = ""

\* A page with detections and no line.
C18_Witness ==
  /\ eng_pc = "returned"
  /\ root = <<>>
  /\ detections # <<>>
  /\ cascades = 0
  /\ result.text = ""

\* The text of a confidence attribute is a decimal literal.
DecimalText(a) ==
  /\ a.has
  /\ \E i \in 1..Len(a.val) : IsDigit(a.val[i])
  /\ \A i \in 1..Len(a.val) : IsDigit(a.val[i]) \/ a.val[i] = "."
  /\ Cardinality({i \in 1..Len(a.val) : a.val[i] = "."}) <= 1

\* Its value.
DecimalVal(a) ==
  LET t == IF Contains(a.val, ".") THEN TrimZeros(a.val) ELSE a.val
      point == IF Contains(t, ".") THEN FirstIndex(t, ".") ELSE Len(t)
  IN Float(DigitsVal(SelectSeq(t, IsDigit)), Len(t) - point)

\* C20: the record of a line at (x, y) of size (w, h) has the bounding box
\* <<(x,y), (x,y+h), (x+w,y), (x+w,y+h)>> in that order, isVertical and
\* isTextline "true" whatever the line's shape, and the line's confidence,
\* 0 when it does not parse.
C20_LineRecord ==
  eng_pc = "returned" =>
    \A i \in 1..Len(root) :
      LET x == AttrVal(root[i].X)
          y == AttrVal(root[i].Y)
          w == AttrVal(root[i].WIDTH)
          h == AttrVal(root[i].HEIGHT)
          rec == result.contents[i]
      IN /\ rec.boundingBox = << <<x, y>>, <<x, y + h>>, <<x + w, y>>, <<x + w, y + h>> >>
         /\ rec.isVertical = "true"
         /\ rec.isTextline = "true"
         /\ rec.confidence = IF DecimalText(root[i].CONF)
                             THEN DecimalVal(root[i].CONF) ELSE Float(0, 0)

\* A line wider than tall, and a line whose confidence does not parse.
C20_Witness ==
  /\ eng_pc = "returned"
  /\ Len(root) = 2
  /\ result.contents[1].boundingBox = << <<1, 2>>, <<1, 4>>, <<6, 2>>, <<6, 4>> >>
  /\ result.contents[1].isVertical = "true"
  /\ result.contents[1].confidence = Float(95, 2)
  /\ root[2].CONF = Some(<<"a", "b", "c">>)
  /\ result.contents[2].confidence = Float(0, 0)


\* parse_input succeeds on caller p's event.
ParseOk(p) == parse_input(event[p], work_dir(p), {}).exc = NoExc

\* C15 as stated: when parse_input fails the invocation is answered 400 and
\* no page is processed.
C15_ParseFailureIs400 ==
  \A p \in Procs :
    (OcrDone(p) /\ ~ParseOk(p)) =>
      /\ response[p].statusCode = 400
      /\ detected[p] = <<>>
      /\ pages[p] = <<>>

\* C16: a failure on page k ends the invocation: no page after k is handed
\* to process_single_image, and the response has an "error" and no "pages",
\* whatever pages 1..k-1 gave.
C16_NoPartialResult ==
  \A p \in Procs :
    (OcrDone(p) /\ ParseOk(p) /\ exc[p] # NoExc) =>
      /\ Len(detected[p]) <= Len(pages[p]) + 1
      /\ detected[p] = SubSeq(image_paths[p], 1, Len(detected[p]))
      /\ DOMAIN response[p].body = {"error"}
      /\ response[p].statusCode # 200

\* The second of three pages fails: the first one's result is not returned,
\* the third is never processed.
C16_Witness ==
  \E p \in Procs :
    /\ OcrDone(p)
    /\ Len(image_paths[p]) = 3
    /\ Len(pages[p]) = 1
    /\ Len(detected[p]) = 2
    /\ exc[p].cls = "RuntimeError"
    /\ response[p].statusCode = 500
    /\ DOMAIN response[p].body = {"error"}

\* C17 as stated: once parse_input has succeeded, every fault of the
\* per-page stage is answered 500 with "Internal error: <kind>: <message>",
\* never 400.
C17_PageFaultIs500 ==
  \A p \in Procs :
    (OcrDone(p) /\ ParseOk(p) /\ exc[p] # NoExc) =>
      /\ response[p].statusCode = 500
      /\ response[p].body =
           [error |-> "Internal error: " \o exc[p].cls \o ": " \o exc[p].msg]

\* "page_00n.jpg" for n below ten.
PageName(n) ==
  "page_00" \o (CHOOSE c \in DOMAIN DigitVal : DigitVal[c] = n) \o ".jpg"

\* C19: parse_input takes the input for a PDF exactly when the materialized
\* bytes begin with "%PDF-", fetched or decoded alike; for a PDF it returns
\* is_pdf true and one path page_00n per selected page n (1-based, in the
\* document), ascending; otherwise the one path page_001 and is_pdf false.
C19_Classification ==
  \A p \in Procs :
    pc[p] = "loop" =>
      LET data == InputOf(p).data
          pdf == Len(data) >= 5 /\ SubSeq(data, 1, 5) = <<37, 80, 68, 70, 45>>
          sel == parse_pages(event[p].pages, PdfDocument(data).total_pages).val
      IN /\ is_pdf[p] = pdf
         /\ pdf =>
              /\ Len(image_paths[p]) = Len(sel)
              /\ \A k \in 1..Len(sel) :
                   image_paths[p][k] = Append(work_dir(p), PageName(sel[k] + 1))
              /\ \A j \in 1..Len(sel), k \in 1..Len(sel) : j < k => sel[j] < sel[k]
         /\ ~pdf => image_paths[p] = <<Append(work_dir(p), "page_001.jpg")>>

\* A fetched PDF of two pages, both selected.
C19_Witness ==
  \E p \in Procs :
    /\ pc[p] = "loop"
    /\ event[p].image = Some(S3UriPdf)
    /\ is_pdf[p]
    /\ image_paths[p] = << Append(work_dir(p), "page_001.jpg"),
                           Append(work_dir(p), "page_002.jpg") >>

\* A decoded PDF of three pages with "1,3", and a fetched image.
C19_WitnessInline ==
  \E p \in Procs :
    /\ pc[p] = "loop"
    /\ event[p].image = Some(B64Pdf(3))
    /\ event[p].pages = Some(<<"1", ",", "3">>)
    /\ is_pdf[p]
    /\ image_paths[p] = << Append(work_dir(p), "page_001.jpg"),
                           Append(work_dir(p), "page_003.jpg") >>

C19_WitnessImage ==
  \E p \in Procs :
    /\ pc[p] = "loop"
    /\ event[p].image = Some(S3UriJpeg)
    /\ ~is_pdf[p]
    /\ Len(image_paths[p]) = 1


\* The OCR invocation of caller p is under way.
InFlight(p) == pc[p] \in {"parse", "loop", "finally"}

\* C14 as stated: two invocations under way at once never use the same
\* working directory, so the page files an invocation has written and not
\* yet processed are never removed by the other's cleanup.
C14_WorkDirNotShared ==
  /\ \A p \in Procs, q \in Procs :
       (p # q /\ InFlight(p) /\ InFlight(q)) => work_dir(p) # work_dir(q)
  /\ \A p \in Procs :
       pc[p] = "loop" =>
         \A k \in (Len(pages[p]) + 1)..Len(image_paths[p]) :
           exists(fs, image_paths[p][k])

\* The second half of C14 alone: a page file written and not yet processed
\* is still there.
C14_PagesNotRemoved ==
  \A p \in Procs :
    pc[p] = "loop" =>
      \A k \in (Len(pages[p]) + 1)..Len(image_paths[p]) :
        exists(fs, image_paths[p][k])


\* The texts one after the other, a newline between two of them.
RECURSIVE NewlineJoined(_)
NewlineJoined(texts) ==
  IF texts = <<>> THEN ""
  ELSE IF Len(texts) = 1 THEN texts[1]
  ELSE NewlineJoined(SubSeq(texts, 1, Len(texts) - 1)) \o "\n" \o texts[Len(texts)]

\* More than half of the LINE elements are taller than wide.
VerticalDominant ==
  2 * Cardinality({i \in 1..Len(root) :
                     AttrVal(root[i].HEIGHT) > AttrVal(root[i].WIDTH)}) > Len(root)

\* C21: the page text is the recognized strings joined by newlines in line
\* order, on a page where most lines are vertical as on any other: the
\* reversal there acts on the one text block.
C21_PageText ==
  eng_pc = "returned" =>
    /\ result.text = NewlineJoined(resultlinesall)
    /\ VerticalDominant <=> (alllinecnt > 0 /\ 2 * tatelinecnt > alllinecnt)

\* A page of two vertical lines with two different texts.
C21_Witness ==
  /\ eng_pc = "returned"
  /\ Len(root) = 2
  /\ VerticalDominant
  /\ resultlinesall = <<"ab", "c">>
  /\ result.text = "ab\nc"


\* The invocation of caller p is an upload-URL request.
UploadRequest(p) == event[p].filename.has

\* C22: handler routes on the key "filename".  An event that has it is
\* handled only as an upload-URL request, has "image" or not: no statement
\* of _handle_ocr runs, nothing under /tmp changes, and without a bucket the
\* answer is 500 "IMAGE_BUCKET not configured".  An event without it is
\* handled as an OCR request.
C22_Routing ==
  /\ [](\A p \in Procs :
          /\ (UploadRequest(p) /\ pc[p] # "idle") =>
               /\ pc[p] \in {"upload", "done"}
               /\ image_paths[p] = <<>> /\ detected[p] = <<>> /\ pages[p] = <<>>
               /\ cleanup[p] = "none" /\ ret[p] = NoResponse
               /\ (pc[p] = "done" /\ _BUCKET_NAME = "") =>
                    response[p] = [statusCode |-> 500,
                                   body |-> [error |-> "IMAGE_BUCKET not configured"]]
               /\ (pc[p] = "done" /\ _BUCKET_NAME # "") =>
                    /\ response[p].statusCode = 200
                    /\ DOMAIN response[p].body = {"upload_url", "s3_uri"}
          /\ (~UploadRequest(p) /\ pc[p] # "idle") =>
               /\ pc[p] \in {"parse", "loop", "finally", "done", "raised"}
               /\ pc[p] = "done" => cleanup[p] # "none")
  /\ [][\A p \in Procs : (UploadRequest(p)' /\ pc'[p] # "idle") => fs' = fs]_vars

\* An event with "filename" and "image", no bucket configured.
C22_Witness ==
  \E p \in Procs :
    /\ pc[p] = "done"
    /\ event[p].filename.has
    /\ event[p].image = Some(B64Jpeg)
    /\ _BUCKET_NAME = ""
    /\ response[p].statusCode = 500
    /\ cleanup[p] = "none"

\* The materialized bytes of caller p's event are a raster image.
RasterInput(p) ==
  /\ event[p].image.has
  /\ event[p].image.val # <<>>
  /\ InputOf(p).exc = NoExc
  /\ ~(Len(InputOf(p).data) >= 5 /\ SubSeq(InputOf(p).data, 1, 5) = <<37, 80, 68, 70, 45>>)
  /\ ImageOpen(InputOf(p).data) = NoExc

\* C23: for a raster image "pages" is not consulted: whatever its value,
\* malformed or selecting nothing, the one image is normalized and
\* processed, and the result is one page, numbered 1, with status 200.
C23_PagesIgnoredForImage ==
  \A p \in Procs :
    (OcrDone(p) /\ RasterInput(p)) =>
      /\ image_paths[p] = <<Append(work_dir(p), "page_001.jpg")>>
      /\ detected[p] = image_paths[p]
      /\ exc[p] = NoExc =>
           /\ response[p].statusCode = 200
           /\ Len(response[p].body.pages) = 1
           /\ response[p].body.pages[1].page = 1

\* An image with the malformed expression "a", answered 200 with one page.
C23_Witness ==
  \E p \in Procs :
    /\ OcrDone(p)
    /\ event[p].image = Some(B64Jpeg)
    /\ event[p].pages = Some(<<"a">>)
    /\ response[p].statusCode = 200
    /\ Len(response[p].body.pages) = 1

\* An image with an expression that selects no page of a one-page document.
C23_WitnessNoPage ==
  \E p \in Procs :
    /\ OcrDone(p)
    /\ event[p].image = Some(S3UriJpeg)
    /\ event[p].pages = Some(<<"5">>)
    /\ response[p].statusCode = 200
    /\ Len(response[p].body.pages) = 1

\* The input of caller p is a PDF that loads, and its page selection is
\* well formed (or absent) and names no page of the document.
EmptySelection(p) ==
  /\ event[p].image.has
  /\ event[p].image.val # <<>>
  /\ InputOf(p).exc = NoExc
  /\ _is_pdf(InputOf(p).data)
  /\ PdfDocument(InputOf(p).data).exc = NoExc
  /\ LET n == PdfDocument(InputOf(p).data).total_pages
         pg == event[p].pages
     IN IF ~pg.has \/ pg.val = <<>> THEN n = 0
        ELSE /\ WellFormedSelection(pg)
             /\ \A r \in 1..n : \A t \in TokensOf(pg.val) : ~TokenSelects(t, r, n)

\* C24: a PDF whose well-formed selection holds no page of the document
\* ("5" or "2-1" on three pages, a document without pages) is no error: the
\* answer is 200 with an empty pages list and nothing is processed.
C24_EmptySelectionIs200 ==
  \A p \in Procs :
    (OcrDone(p) /\ EmptySelection(p)) =>
      /\ response[p] = [statusCode |-> 200, body |-> [pages |-> <<>>]]
      /\ detected[p] = <<>>
      /\ exc[p] = NoExc

\* "5" on a document of three pages.
C24_Witness ==
  \E p \in Procs :
    /\ OcrDone(p)
    /\ event[p].image = Some(B64Pdf(3))
    /\ event[p].pages = Some(<<"5">>)
    /\ response[p] = [statusCode |-> 200, body |-> [pages |-> <<>>]]

\* "2-1" on three pages, and a document without pages.
C24_WitnessInverted ==
  \E p \in Procs :
    /\ OcrDone(p)
    /\ event[p].image = Some(B64Pdf(3))
    /\ event[p].pages = Some(<<"2", "-", "1">>)
    /\ response[p].statusCode = 200
    /\ response[p].body.pages = <<>>

C24_WitnessNoPages ==
  \E p \in Procs :
    /\ OcrDone(p)
    /\ event[p].image = Some(B64Pdf(0))
    /\ event[p].pages = None
    /\ response[p].statusCode = 200
    /\ response[p].body.pages = <<>>

\* The OCR event of caller p has no "image", or an empty one.
ImageMissing(p) ==
  ~UploadRequest(p) /\ (~event[p].image.has \/ event[p].image.val = <<>>)

\* C25: an invocation that fails for want of "image" never creates the
\* working directory: where the directory did not exist, no step of the
\* invocation changes anything under /tmp, and the invocation ends with the
\* directory still absent.
C25_NoDirForMissingImage ==
  /\ [][\A p \in Procs :
          (/\ ImageMissing(p)
           /\ pc[p] \in {"parse", "finally"}
           /\ ~exists(fs, work_dir(p)))
          => fs' = fs]_vars
  /\ [](\A p \in Procs :
          (ImageMissing(p) /\ OcrDone(p) /\ cleanup[p] = "absent") =>
            /\ ~exists(fs, work_dir(p))
            /\ image_paths[p] = <<>>
            /\ response[p].statusCode = 400)

\* The event {} answered 400, /tmp untouched.
C25_Witness ==
  \E p \in Procs :
    /\ OcrDone(p)
    /\ event[p].image = None
    /\ cleanup[p] = "absent"
    /\ fs = {}
    /\ response[p].statusCode = 400

====
